---- MODULE Spec2Model ----
(***************************************************************************)
(* A model of the files-mcp filesystem server: the allow-list and size     *)
(* limit of config.py (Config), its path validation (Config.validate_path) *)
(* and the four request handlers of server.py (read_file, write_file,      *)
(* list_directory, list_directory_tree), over an explicit POSIX-like       *)
(* filesystem with directories, regular files and symbolic links.          *)
(*                                                                         *)
(* A path is a sequence of components below "/" (the root is <<>>).  A     *)
(* caller's path may contain "." and ".." components; the model covers     *)
(* absolute inputs that do not start with "~" (expanduser leaves them as   *)
(* they are) and symbolic links with absolute targets that form no cycle   *)
(* of links.  The process is taken to run with UTF-8 as its text encoding, *)
(* and the names of directory entries to be of printable ASCII characters  *)
(* other than the double quote, the backslash and the backquote.           *)
(***************************************************************************)
EXTENDS Integers, Sequences, FiniteSets, TLC

VARIABLES
    fs,                   \* the host filesystem: canonical path -> node
    allowed_paths,        \* Config.allowed_paths, in insertion order
    max_file_size_bytes,  \* Config.max_file_size_bytes (None or a number)
    pre,                  \* the filesystem as it was when the last request arrived
    req,                  \* the last request
    resp,                 \* its response (or the exception it raised)
    pc,                   \* "idle", or "walking" inside list_directory_tree
    stack,                \* the build_tree call stack (innermost frame last)
    max_depth,            \* list_directory_tree's clamped max_depth
    visited,              \* entries build_tree has added to the tree, with their depth
    writes                \* write_file requests served so far

vars == <<fs, allowed_paths, max_file_size_bytes, pre, req, resp, pc, stack,
          max_depth, visited, writes>>

----------------------------------------------------------------------------
(* Bounds of the model. *)

\* The kernel's limit on nested symbolic links while resolving one path.
SymlinkFuel == 6

\* write_file requests in one run.
MaxWrites == 1

\* The largest MAX_FILE_SIZE_MB configured, and the largest file, in MB.
MaxMb == 2

\* The depth of the deepest directory chain on a host.
ChainDepth == 12

\* The largest max_depth a caller passes.
MaxDepthArg == 12

----------------------------------------------------------------------------
(* Python values. *)

\* An optional value is None or Some(x).
None == <<>>

Some(x) == <<x>>

Value(o) == o[1]

\* Python's truth value of an Optional[int].
Truthy(o) == o # None /\ Value(o) # 0

Max(a, b) == IF a >= b THEN a ELSE b

Min(a, b) == IF a <= b THEN a ELSE b

----------------------------------------------------------------------------
(* The filesystem. *)

Dir(readable) == [kind |-> "dir", readable |-> readable, target |-> <<>>,
                  size |-> 0, text |-> None]

\* A regular file holding `size` bytes; `text` is Some(what decoding
\* them yields), None when they are not valid text.
File(size, text) == [kind |-> "file", readable |-> TRUE, target |-> <<>>,
                     size |-> size, text |-> text]

Link(target) == [kind |-> "link", readable |-> TRUE, target |-> target,
                 size |-> 0, text |-> None]

Parent(p) == IF p = <<>> THEN <<>> ELSE SubSeq(p, 1, Len(p) - 1)

Name(p) == IF p = <<>> THEN "" ELSE p[Len(p)]

Present(f, p) == p \in DOMAIN f

IsKind(f, p, k) == Present(f, p) /\ f[p].kind = k

\* f with the entries of g added or replaced.
Overlay(f, g) == [p \in DOMAIN f \cup DOMAIN g |->
                     IF p \in DOMAIN g THEN g[p] ELSE f[p]]

\* The kernel's path walk from the directory `cur`: every component but the
\* last must lead to a directory, ".." is the real parent, a symbolic link is
\* followed (the last one only when `follow`).  st is "found" (path is the
\* object's canonical path), "absent" (the parent exists, the last component
\* does not: path is where it would be created), or the errno.
RECURSIVE Namei(_, _, _, _, _)
Namei(f, cur, rest, follow, fuel) ==
    IF rest = <<>> THEN [st |-> "found", path |-> cur]
    ELSE IF ~IsKind(f, cur, "dir") THEN [st |-> "ENOTDIR", path |-> cur]
    ELSE LET h == Head(rest)
             tl == Tail(rest)
             child == Append(cur, h)
         IN  IF h = "." THEN Namei(f, cur, tl, follow, fuel)
             ELSE IF h = ".." THEN Namei(f, Parent(cur), tl, follow, fuel)
             ELSE IF ~Present(f, child)
                  THEN IF tl = <<>> THEN [st |-> "absent", path |-> child]
                       ELSE [st |-> "ENOENT", path |-> child]
             ELSE IF f[child].kind = "link"
                  THEN IF tl = <<>> /\ ~follow
                       THEN [st |-> "found", path |-> child]
                       ELSE IF fuel = 0 THEN [st |-> "ELOOP", path |-> child]
                       ELSE Namei(f, <<>>, f[child].target \o tl, follow, fuel - 1)
             ELSE Namei(f, child, tl, follow, fuel)

\* stat(p) and lstat(p).
Stat(f, p) == Namei(f, <<>>, p, TRUE, SymlinkFuel)

LStat(f, p) == Namei(f, <<>>, p, FALSE, SymlinkFuel)

----------------------------------------------------------------------------
(* pathlib. *)

\* Path(path_str): "." components are dropped, ".." components are kept.
PathOf(parts) == SelectSeq(parts, LAMBDA c : c # ".")

\* Path.exists(), is_dir(), is_file() follow symbolic links; is_symlink()
\* does not.  Each is False when the walk fails.
Exists(f, p) == Stat(f, p).st = "found"

IsDir(f, p) == LET r == Stat(f, p) IN r.st = "found" /\ f[r.path].kind = "dir"

IsFile(f, p) == LET r == Stat(f, p) IN r.st = "found" /\ f[r.path].kind = "file"

IsSymlink(f, p) == LET r == LStat(f, p) IN r.st = "found" /\ f[r.path].kind = "link"

\* os.path.realpath(p, strict=False): components are resolved left to right
\* onto `path`; ".." drops the last component of what is resolved so far, a
\* component that is not a symbolic link (or does not exist) is appended, a
\* symbolic link is replaced by its resolved target.
RECURSIVE JoinRealPath(_, _, _, _)
JoinRealPath(f, path, rest, fuel) ==
    IF rest = <<>> THEN path
    ELSE LET h == Head(rest)
             tl == Tail(rest)
             newpath == Append(path, h)
         IN  IF h = "." THEN JoinRealPath(f, path, tl, fuel)
             ELSE IF h = ".." THEN JoinRealPath(f, Parent(path), tl, fuel)
             ELSE IF ~IsKind(f, newpath, "link")
                  THEN JoinRealPath(f, newpath, tl, fuel)
             ELSE IF fuel = 0 THEN newpath \o tl
             ELSE JoinRealPath(f, JoinRealPath(f, <<>>, f[newpath].target, fuel - 1),
                               tl, fuel)

\* Path.resolve() (strict=False).
Resolve(f, p) == JoinRealPath(f, <<>>, p, SymlinkFuel)

\* PurePath.relative_to succeeds: `d` is a prefix of `p`, component by component.
IsRelativeTo(p, d) == Len(d) <= Len(p) /\ SubSeq(p, 1, Len(d)) = d

----------------------------------------------------------------------------
(* config.py: Config. *)

Root(path, permission) == [path |-> path, permission |-> permission]

\* One ALLOWED_PATHS entry added to the dict built so far; acc.err is the
\* ValueError raised, None while there is none.
AddAllowedPath(f, acc, entry) ==
    LET path == Resolve(f, PathOf(entry.path))
    IN  IF acc.err # None THEN acc
        ELSE IF entry.form = "blank" THEN acc
        ELSE IF entry.form = "bare"
             THEN [acc EXCEPT !.err = Some("Invalid entry (missing :permission)")]
        ELSE IF entry.permission \notin {"ro", "rw"}
             THEN [acc EXCEPT !.err = Some("Invalid permission")]
        ELSE IF ~Exists(f, path)
             THEN [acc EXCEPT !.err = Some("Path does not exist")]
        ELSE IF ~IsDir(f, path)
             THEN [acc EXCEPT !.err = Some("Path is not a directory")]
        ELSE IF \E i \in 1..Len(acc.paths) : acc.paths[i].path = path
             THEN [acc EXCEPT !.err = Some("Duplicate path in ALLOWED_PATHS")]
        ELSE [acc EXCEPT !.paths = Append(@, Root(path, entry.permission))]

RECURSIVE AddAllowedPaths(_, _, _)
AddAllowedPaths(f, acc, entries) ==
    IF entries = <<>> THEN acc
    ELSE AddAllowedPaths(f, AddAllowedPath(f, acc, Head(entries)), Tail(entries))

\* Config._parse_allowed_paths over the entries of ALLOWED_PATHS.
ParseAllowedPaths(f, entries) ==
    LET acc == AddAllowedPaths(f, [err |-> None, paths |-> <<>>], entries)
    IN  IF entries = <<>>
        THEN [acc EXCEPT !.err = Some("ALLOWED_PATHS environment variable required")]
        ELSE IF acc.err = None /\ acc.paths = <<>>
        THEN [acc EXCEPT !.err = Some("No valid paths in ALLOWED_PATHS")]
        ELSE acc

\* Config._parse_size_limits: NO_SIZE_LIMIT=true gives None, otherwise
\* MAX_FILE_SIZE_MB (an integer) must be positive and is turned into bytes.
ParseSizeLimits(no_size_limit, max_mb) ==
    IF no_size_limit THEN [err |-> None, bytes |-> None]
    ELSE IF max_mb <= 0 THEN [err |-> Some("MAX_FILE_SIZE_MB must be positive"), bytes |-> None]
    ELSE [err |-> None, bytes |-> Some(max_mb * 1024 * 1024)]

\* validate_path without resolution: the path is checked as it is spelled.
RequestedAsSpelled(f, path_obj, require_write) == path_obj

\* The path validate_path checks: for a read the resolved path; for a write
\* the resolved path when it exists, else the resolved parent with the last
\* component appended as given when the parent exists, else whatever
\* resolve() makes of the whole path.
Requested(f, path_obj, require_write) ==
    IF require_write
    THEN IF Exists(f, path_obj) THEN Resolve(f, path_obj)
         ELSE IF Exists(f, Parent(path_obj))
              THEN Append(Resolve(f, Parent(path_obj)), Name(path_obj))
              ELSE Resolve(f, path_obj)
    ELSE Resolve(f, path_obj)

\* The loop without its permission check: the first entry that contains
\* `requested` lets it through, read or write.
FindAllowedUnpermitted(roots, i, requested, require_write, path_str) ==
    LET hits == {j \in i..Len(roots) : IsRelativeTo(requested, roots[j].path)}
        first == CHOOSE j \in hits : \A k \in hits : j <= k
    IN  IF hits = {}
        THEN [kind |-> "PermissionError", path |-> requested, root |-> 0,
              msg |-> <<"Access denied: outside allowed directories", path_str,
                        requested, [j \in 1..Len(roots) |-> roots[j].path]>>]
        ELSE [kind |-> "ok", path |-> requested, root |-> first, msg |-> <<>>]

\* The loop with the most specific policy: of the entries that contain
\* `requested`, the one with the longest path decides.
FindAllowedNearest(roots, i, requested, require_write, path_str) ==
    LET hits == {j \in i..Len(roots) : IsRelativeTo(requested, roots[j].path)}
        nearest == CHOOSE j \in hits :
                       \A k \in hits : Len(roots[k].path) <= Len(roots[j].path)
    IN  IF hits = {}
        THEN [kind |-> "PermissionError", path |-> requested, root |-> 0,
              msg |-> <<"Access denied: outside allowed directories", path_str,
                        requested, [j \in 1..Len(roots) |-> roots[j].path]>>]
        ELSE IF require_write /\ roots[nearest].permission = "ro"
             THEN [kind |-> "PermissionError", path |-> requested, root |-> nearest,
                   msg |-> <<"Write access denied: read-only", roots[nearest].path>>]
             ELSE [kind |-> "ok", path |-> requested, root |-> nearest, msg |-> <<>>]

\* The loop over allowed_paths from its i-th entry on: the first entry that
\* contains `requested` decides.
RECURSIVE FindAllowed(_, _, _, _, _)
FindAllowed(roots, i, requested, require_write, path_str) ==
    IF i > Len(roots)
    THEN [kind |-> "PermissionError", path |-> requested, root |-> 0,
          msg |-> <<"Access denied: outside allowed directories", path_str,
                    requested, [j \in 1..Len(roots) |-> roots[j].path]>>]
    ELSE IF IsRelativeTo(requested, roots[i].path)
         THEN IF require_write /\ roots[i].permission = "ro"
              THEN [kind |-> "PermissionError", path |-> requested, root |-> i,
                    msg |-> <<"Write access denied: read-only", roots[i].path>>]
              ELSE [kind |-> "ok", path |-> requested, root |-> i, msg |-> <<>>]
         ELSE FindAllowed(roots, i + 1, requested, require_write, path_str)

\* validate_path without the existence and containment checks.
ValidatePathUnchecked(f, roots, path_str, require_write) ==
    [kind |-> "ok", path |-> Resolve(f, PathOf(path_str)), root |-> 0, msg |-> <<>>]

\* Config.validate_path.  kind is "ok" (path is the value returned) or the
\* exception raised; root is the index of the entry of allowed_paths that
\* decided, 0 when none contains the path.
ValidatePath(f, roots, path_str, require_write) ==
    LET path_obj == PathOf(path_str)
    IN  IF ~require_write /\ ~Exists(f, path_obj)
        THEN [kind |-> "FileNotFoundError", path |-> <<>>, root |-> 0,
              msg |-> <<"Path not found", path_str>>]
        ELSE FindAllowed(roots, 1, Requested(f, path_obj, require_write),
                         require_write, path_str)

----------------------------------------------------------------------------
(* Text.  A str is modelled by its repeated character: Str(cp, n) is the   *)
(* string of n characters with code point cp.                              *)

\* (There is one empty string, whatever the character.)
Str(cp, n) == IF n = 0 THEN [cp |-> 0, n |-> 0] ELSE [cp |-> cp, n |-> n]

\* A lone surrogate has no UTF-8 encoding: str.encode raises.
IsSurrogate(cp) == cp >= 55296 /\ cp <= 57343

\* Bytes of one code point in UTF-8.
Utf8Width(cp) == IF cp < 128 THEN 1
                 ELSE IF cp < 2048 THEN 2
                 ELSE IF cp < 65536 THEN 3
                 ELSE 4

\* What text mode makes of the decoded text on reading (universal newlines):
\* a carriage return is read as a line feed.
UniversalNewlines(text) == IF text.cp = 13 THEN Str(10, text.n) ELSE text

\* len(content.encode('utf-8')).
EncodedLen(content) == content.n * Utf8Width(content.cp)

----------------------------------------------------------------------------
(* Responses.  kind is "ok" or the exception raised; value is the result;  *)
(* msg is what the exception's message is built from.                      *)

Ok(value) == [kind |-> "ok", value |-> value, msg |-> <<>>]

Raise(kind, msg) == [kind |-> kind, value |-> <<>>, msg |-> msg]

Outcome(response, f) == [resp |-> response, fs |-> f]

\* A size check that refuses a size equal to the limit too.
TooLargeInclusive(size, limit) == Truthy(limit) /\ size >= Value(limit)

\* The size check of read_file and write_file: the limit applies when it is
\* truthy, and only a size above it is refused.
TooLarge(size, limit) == Truthy(limit) /\ size > Value(limit)

----------------------------------------------------------------------------
(* server.py: read_file. *)

ReadFile(f, roots, limit, path) ==
    LET v == ValidatePath(f, roots, path, FALSE)
        file_path == v.path
        node == f[Stat(f, file_path).path]
    IN  IF v.kind # "ok" THEN Outcome(Raise(v.kind, v.msg), f)
        ELSE IF ~Exists(f, file_path)
             THEN Outcome(Raise("FileNotFoundError", <<"File not found", path>>), f)
        ELSE IF ~IsFile(f, file_path)
             THEN Outcome(Raise("FileNotFoundError", <<"Not a file", path>>), f)
        ELSE IF TooLarge(node.size, limit)
             THEN Outcome(Raise("ValueError",
                                <<"File too large", node.size, Value(limit)>>), f)
        ELSE IF node.text = None
             THEN Outcome(Raise("ValueError", <<"Cannot read binary file", path>>), f)
        ELSE Outcome(Ok(UniversalNewlines(Value(node.text))), f)

----------------------------------------------------------------------------
(* server.py: write_file. *)

\* os.mkdir(p): the last component is not followed and must not exist.
OsMkdir(f, p) ==
    LET r == LStat(f, p)
    IN  IF r.st = "absent"
        THEN [err |-> None, fs |-> Overlay(f, (r.path :> Dir(TRUE)))]
        ELSE IF r.st = "found" THEN [err |-> Some("FileExistsError"), fs |-> f]
        ELSE IF r.st = "ENOENT" THEN [err |-> Some("FileNotFoundError"), fs |-> f]
        ELSE IF r.st = "ENOTDIR" THEN [err |-> Some("NotADirectoryError"), fs |-> f]
        ELSE [err |-> Some("OSError"), fs |-> f]

\* Path.mkdir had parents been left False: one os.mkdir.
MkdirNoParents(f, p, parents, exist_ok) ==
    LET r == OsMkdir(f, p)
    IN  IF r.err # None /\ r.err # Some("FileNotFoundError") /\ exist_ok /\ IsDir(f, p)
        THEN [err |-> None, fs |-> f]
        ELSE r

\* Path.mkdir(parents, exist_ok): on FileNotFoundError the parents are made
\* first and the directory after them; any other error is ignored when
\* exist_ok is set and the path is a directory.
RECURSIVE Mkdir(_, _, _, _)
Mkdir(f, p, parents, exist_ok) ==
    LET r == OsMkdir(f, p)
    IN  IF r.err = None THEN r
        ELSE IF r.err = Some("FileNotFoundError")
             THEN IF ~parents \/ Parent(p) = p THEN r
                  ELSE LET up == Mkdir(f, Parent(p), TRUE, TRUE)
                       IN  IF up.err # None THEN up
                           ELSE Mkdir(up.fs, p, FALSE, exist_ok)
        ELSE IF exist_ok /\ IsDir(f, p) THEN [err |-> None, fs |-> f]
        ELSE r

\* Path.write_text(content): open(p, "w") follows symbolic links, creates
\* the file where the walk ends when it is absent, and replaces its bytes.
WriteText(f, p, content) ==
    LET r == Stat(f, p)
        data == File(EncodedLen(content), Some(content))
    IN  IF r.st = "absent" THEN [err |-> None, fs |-> Overlay(f, (r.path :> data))]
        ELSE IF r.st = "found"
             THEN IF f[r.path].kind = "dir"
                  THEN [err |-> Some("IsADirectoryError"), fs |-> f]
                  ELSE [err |-> None, fs |-> Overlay(f, (r.path :> data))]
        ELSE IF r.st = "ENOENT" THEN [err |-> Some("FileNotFoundError"), fs |-> f]
        ELSE IF r.st = "ENOTDIR" THEN [err |-> Some("NotADirectoryError"), fs |-> f]
        ELSE [err |-> Some("OSError"), fs |-> f]

WriteFile(f, roots, limit, path, content) ==
    LET v == ValidatePath(f, roots, path, TRUE)
        file_path == v.path
        size == EncodedLen(content)
        made == Mkdir(f, Parent(file_path), TRUE, TRUE)
        written == WriteText(made.fs, file_path, content)
    IN  IF v.kind # "ok" THEN Outcome(Raise(v.kind, v.msg), f)
        ELSE IF IsSurrogate(content.cp) /\ content.n > 0
             THEN Outcome(Raise("UnicodeEncodeError", <<"surrogates not allowed">>), f)
        ELSE IF TooLarge(size, limit)
             THEN Outcome(Raise("ValueError",
                                <<"Content too large", size, Value(limit)>>), f)
        ELSE IF made.err # None
             THEN Outcome(Raise(Value(made.err), <<"mkdir", Parent(file_path)>>), made.fs)
        ELSE IF written.err # None
             THEN Outcome(Raise(Value(written.err), <<"open", file_path>>), written.fs)
        ELSE Outcome(Ok(<<"Wrote", size, path>>), written.fs)

----------------------------------------------------------------------------
(* Directory listings. *)

\* The printable ASCII characters in code point order, but for the double
\* quote (34), the backslash (92) and the backquote (96).
AsciiChars ==
    " !" \o "#$%&'()*+,-./0123456789:;<=>?@ABCDEFGHIJKLMNOPQRSTUVWXYZ[" \o
    "]^_" \o "abcdefghijklmnopqrstuvwxyz{|}~"

\* Where name[k] stands among them: the order of ord(name[k]).
Rank(name, k) ==
    CHOOSE i \in 1..Len(AsciiChars) : SubSeq(AsciiChars, i, i) = SubSeq(name, k, k)

\* a < b for two str: at the first position where they differ a has the
\* smaller code point, or a ends there.
StrLess(a, b) ==
    \E k \in 1..(Min(Len(a), Len(b)) + 1) :
        /\ \A j \in 1..(k - 1) : SubSeq(a, j, j) = SubSeq(b, j, j)
        /\ IF k > Len(a) THEN k <= Len(b)
           ELSE k <= Len(b) /\ Rank(a, k) < Rank(b, k)

\* The names of the entries of the directory whose canonical path is d.
EntryNames(f, d) == {p[Len(p)] : p \in {q \in DOMAIN f : q # <<>> /\ Parent(q) = d}}

\* sorted(...) of a set of names.
Sorted(names) ==
    [i \in 1..Cardinality(names) |->
        CHOOSE name \in names :
            Cardinality({other \in names : StrLess(other, name)}) = i - 1]

\* sorted(d.iterdir()), as names; listing needs read permission on d.
CanList(f, d) == f[Stat(f, d).path].readable

SortedEntries(f, d) == Sorted(EntryNames(f, Stat(f, d).path))

----------------------------------------------------------------------------
(* server.py: list_directory. *)

Entry(f, item) == [name |-> Name(item),
                   type |-> IF IsDir(f, item) THEN "dir" ELSE "file"]

ListDirectory(f, roots, path) ==
    LET v == ValidatePath(f, roots, path, FALSE)
        dir_path == v.path
        names == SortedEntries(f, dir_path)
    IN  IF v.kind # "ok" THEN Outcome(Raise(v.kind, v.msg), f)
        ELSE IF ~Exists(f, dir_path)
             THEN Outcome(Raise("FileNotFoundError", <<"Directory not found", path>>), f)
        ELSE IF ~IsDir(f, dir_path)
             THEN Outcome(Raise("NotADirectoryError", <<"Not a directory", path>>), f)
        ELSE IF ~CanList(f, dir_path)
             THEN Outcome(Raise("PermissionError", <<"scandir", dir_path>>), f)
        ELSE Outcome(Ok([i \in 1..Len(names) |->
                            Entry(f, Append(dir_path, names[i]))]), f)

----------------------------------------------------------------------------
(* server.py: list_directory_tree and its build_tree. *)

\* max(1, min(max_depth, 10)).
ClampDepth(d) == Max(1, Min(d, 10))

\* The dicts build_tree returns.  A truncated directory and a file carry no
\* "children" key (has_children is FALSE).
TruncatedNode(path) == [name |-> Name(path), type |-> "dir", truncated |-> TRUE,
                        has_children |-> FALSE, children |-> <<>>, error |-> None]

DirNode(path, children, error) ==
    [name |-> Name(path), type |-> "dir", truncated |-> FALSE,
     has_children |-> TRUE, children |-> children, error |-> error]

FileNode(path) == [name |-> Name(path), type |-> "file", truncated |-> FALSE,
                   has_children |-> FALSE, children |-> <<>>, error |-> None]

\* One activation of build_tree(current_path, current_depth): at "call" it
\* has just been entered, at "loop" it is iterating over `todo`.
Frame(path, depth) == [path |-> path, depth |-> depth, at |-> "call",
                       todo |-> <<>>, children |-> <<>>]

\* build_tree gives up below max_depth.
TooDeep(current_depth, limit) == current_depth > limit

\* A build_tree that follows symbolic links like any other entry.
NeverSkipped(f, item) == FALSE

\* build_tree leaves symbolic links out of the tree.
Skipped(f, item) == IsSymlink(f, item)

----------------------------------------------------------------------------
(* The requests. *)

NoContent == Str(0, 0)

Request(op, path, content, depth) ==
    [op |-> op, path |-> path, content |-> content, max_depth |-> depth]

Pending == [kind |-> "pending", value |-> <<>>, msg |-> <<>>]

config == <<allowed_paths, max_file_size_bytes>>

walk == <<pc, stack, max_depth, visited>>

\* read_file, list_directory and list_directory_tree leave the filesystem
\* and the configuration as they are, so later requests do not depend on
\* them: a run is explored as write_file requests followed by one of them.
Unobserved == req.op \in {"none", "write_file"}

\* A handler that runs to its end in one step.
Serve(request, outcome) ==
    /\ pc = "idle"
    /\ Unobserved
    /\ pre' = fs
    /\ req' = request
    /\ LET o == outcome
       IN  /\ resp' = o.resp
           /\ fs' = o.fs
    /\ UNCHANGED <<config, walk>>

read_file(path) ==
    /\ Serve(Request("read_file", path, NoContent, 0),
             ReadFile(fs, allowed_paths, max_file_size_bytes, path))
    /\ UNCHANGED writes

write_file(path, content) ==
    /\ writes < MaxWrites
    /\ Serve(Request("write_file", path, content, 0),
             WriteFile(fs, allowed_paths, max_file_size_bytes, path, content))
    /\ writes' = writes + 1

list_directory(path) ==
    /\ Serve(Request("list_directory", path, NoContent, 0),
             ListDirectory(fs, allowed_paths, path))
    /\ UNCHANGED writes

\* list_directory_tree up to its call of build_tree(dir_path, 0).
list_directory_tree(path, depth) ==
    LET v == ValidatePath(fs, allowed_paths, path, FALSE)
        dir_path == v.path
        failure ==
            IF v.kind # "ok" THEN Raise(v.kind, v.msg)
            ELSE IF ~Exists(fs, dir_path)
                 THEN Raise("FileNotFoundError", <<"Directory not found", path>>)
            ELSE IF ~IsDir(fs, dir_path)
                 THEN Raise("NotADirectoryError", <<"Not a directory", path>>)
            ELSE Pending
    IN  /\ pc = "idle"
        /\ Unobserved
        /\ pre' = fs
        /\ req' = Request("list_directory_tree", path, NoContent, depth)
        /\ resp' = failure
        /\ visited' = {}
        /\ IF failure = Pending
           THEN /\ pc' = "walking"
                /\ max_depth' = ClampDepth(depth)
                /\ stack' = <<Frame(dir_path, 0)>>
           ELSE UNCHANGED <<pc, max_depth, stack>>
        /\ UNCHANGED <<fs, config, writes>>

Top == stack[Len(stack)]

Visit(path, depth, how) == [path |-> path, depth |-> depth, how |-> how]

\* build_tree returns `node`: to its caller's result["children"].append, or,
\* from the outermost call, to list_directory_tree, which responds with it.
Return(node) ==
    IF Len(stack) = 1
    THEN /\ stack' = <<>>
         /\ pc' = "idle"
         /\ resp' = Ok(node)
    ELSE /\ stack' = [SubSeq(stack, 1, Len(stack) - 1) EXCEPT
                         ![Len(stack) - 1].children = Append(@, node)]
         /\ pc' = "walking"
         /\ UNCHANGED resp

\* build_tree is entered: the depth test, then sorted(current_path.iterdir()).
build_tree_enter ==
    /\ pc = "walking"
    /\ Top.at = "call"
    /\ IF TooDeep(Top.depth, max_depth)
       THEN /\ Return(TruncatedNode(Top.path))
            /\ visited' = visited \cup {Visit(Top.path, Top.depth, "truncated")}
       ELSE IF ~CanList(fs, Top.path)
       THEN /\ Return(DirNode(Top.path, <<>>, Some("Permission denied")))
            /\ visited' = visited \cup {Visit(Top.path, Top.depth, "denied")}
       ELSE /\ stack' = [stack EXCEPT ![Len(stack)].at = "loop",
                                      ![Len(stack)].todo = SortedEntries(fs, Top.path)]
            /\ visited' = visited \cup {Visit(Top.path, Top.depth, "iterated")}
            /\ UNCHANGED <<pc, resp>>
    /\ UNCHANGED <<fs, config, pre, req, max_depth, writes>>

\* One iteration of build_tree's loop.
build_tree_item ==
    /\ pc = "walking"
    /\ Top.at = "loop"
    /\ Top.todo # <<>>
    /\ LET item == Append(Top.path, Head(Top.todo))
           rest == [stack EXCEPT ![Len(stack)].todo = Tail(@)]
       IN  IF Skipped(fs, item)
           THEN /\ stack' = rest
                /\ UNCHANGED visited
           ELSE IF IsDir(fs, item)
           THEN /\ stack' = Append(rest, Frame(item, Top.depth + 1))
                /\ UNCHANGED visited
           ELSE /\ stack' = [rest EXCEPT ![Len(stack)].children =
                                             Append(@, FileNode(item))]
                /\ visited' = visited \cup {Visit(item, Top.depth + 1, "file")}
    /\ UNCHANGED <<fs, config, pre, req, resp, pc, max_depth, writes>>

\* build_tree's loop is over: return result.
build_tree_return ==
    /\ pc = "walking"
    /\ Top.at = "loop"
    /\ Top.todo = <<>>
    /\ Return(DirNode(Top.path, Top.children, None))
    /\ UNCHANGED <<fs, config, pre, req, max_depth, visited, writes>>

build_tree == build_tree_enter \/ build_tree_item \/ build_tree_return

----------------------------------------------------------------------------
(* The hosts and configurations explored. *)

Text(n) == Some(Str(97, n))

\* A host with two areas to share (data, with a subdirectory, and docs) and
\* one that is never shared (out).
BaseFs ==
    (<<>> :> Dir(TRUE)) @@
    (<<"data">> :> Dir(TRUE)) @@
    (<<"data", "f">> :> File(4, Text(4))) @@
    (<<"data", "pub">> :> Dir(TRUE)) @@
    (<<"data", "pub", "p">> :> File(2, Text(2))) @@
    (<<"docs">> :> Dir(TRUE)) @@
    (<<"docs", "g">> :> File(3, Text(3))) @@
    (<<"out">> :> Dir(TRUE)) @@
    (<<"out", "s">> :> File(6, Text(6)))

\* What may have been planted on the host before the server starts: nothing,
\* or one symbolic link (to a file outside, to a missing file outside, to a
\* directory outside, to an ancestor, from outside to a file inside, to a
\* missing file in docs).
Plants ==
    { <<>> :> Dir(TRUE),
      <<"data", "ln">> :> Link(<<"out", "s">>),
      <<"data", "dl">> :> Link(<<"out", "new">>),
      <<"data", "dd">> :> Link(<<"out">>),
      <<"data", "up">> :> Link(<<"data">>),
      <<"out", "in">> :> Link(<<"data", "f">>),
      <<"data", "dr">> :> Link(<<"docs", "new">>) }

\* One comma-separated entry of ALLOWED_PATHS, "<path>:<permission>", an
\* entry that is empty once stripped, and an entry without a colon.
AllowEntry(path, permission) ==
    [form |-> "pair", path |-> path, permission |-> permission]

BlankEntry == [form |-> "blank", path |-> <<>>, permission |-> ""]

BareEntry(path) == [form |-> "bare", path |-> path, permission |-> ""]

\* Values of ALLOWED_PATHS: one root, two disjoint roots, nested roots in
\* both orders and with both permissions, and values Config refuses.
AllowedPathsEnv ==
    { <<AllowEntry(<<"data">>, "rw")>>,
      <<AllowEntry(<<"data">>, "rw"), AllowEntry(<<"docs">>, "ro")>>,
      <<AllowEntry(<<"data">>, "rw"), AllowEntry(<<"data", "pub">>, "ro")>>,
      <<AllowEntry(<<"data", "pub">>, "ro"), AllowEntry(<<"data">>, "rw")>>,
      <<AllowEntry(<<"data">>, "ro"), AllowEntry(<<"data", "pub">>, "rw")>>,
      <<AllowEntry(<<"data", "pub">>, "rw"), AllowEntry(<<"data">>, "ro")>>,
      <<AllowEntry(<<"data">>, "rw"), AllowEntry(<<"data", "pub", "..">>, "ro")>>,
      <<AllowEntry(<<"data", "f">>, "rw")>>,
      <<AllowEntry(<<"data", "n1">>, "rw")>>,
      <<AllowEntry(<<"data">>, "rwx")>>,
      <<BlankEntry, AllowEntry(<<"data">>, "rw"), BlankEntry>>,
      <<BlankEntry>>,
      <<AllowEntry(<<"data">>, "rw"), BareEntry(<<"docs">>)>>,
      <<>> }

\* MAX_FILE_SIZE_MB when the environment does not set it.
DefaultMaxMb == 10

\* list_directory_tree's max_depth when the caller does not pass it.
DefaultMaxDepth == 3

\* The paths callers ask for.
Paths ==
    { <<>>, <<"data">>, <<"data", "pub">>, <<"out">>,
      <<"data", "f">>, <<"data", ".", "f">>, <<"data", "pub", "p">>,
      <<"data", "pub", "..", "f">>, <<"data", "n1", "..", "f">>, <<"data", "f", "..", "f">>,
      <<"data", "new">>, <<"data", "pub", "new">>, <<"data", "n1", "n2", "new">>,
      <<"data", "f", "n1">>,
      <<"docs", "g">>, <<"docs", "new">>,
      <<"out", "s">>, <<"out", "new">>, <<"out", "in">>, <<"data", "..", "out", "s">>,
      <<"data", "ln">>, <<"data", "dl">>, <<"data", "dr">>,
      <<"data", "dd", "s">>, <<"data", "dd", "new">>,
      <<"data", "up", "f">>, <<"data", "up", "new">>, <<"data", "up", "n1", "new">> }

\* What callers write: three two-byte characters.
Contents == {Str(233, 3)}

NoRequest == Request("none", <<>>, NoContent, 0)

\* The server has started: Config() raised nothing.
Started(f, entries, no_size_limit, max_mb) ==
    LET paths == ParseAllowedPaths(f, entries)
        limit == ParseSizeLimits(no_size_limit, max_mb)
    IN  /\ paths.err = None
        /\ limit.err = None
        /\ fs = f
        /\ allowed_paths = paths.paths
        /\ max_file_size_bytes = limit.bytes
        /\ pre = f
        /\ req = NoRequest
        /\ resp = Pending
        /\ pc = "idle"
        /\ stack = <<>>
        /\ max_depth = DefaultMaxDepth
        /\ visited = {}
        /\ writes = 0

Init ==
    \E plant \in Plants, entries \in AllowedPathsEnv :
        Started(Overlay(BaseFs, plant), entries, FALSE, DefaultMaxMb)

Next ==
    \/ \E path \in Paths : read_file(path)
    \/ \E path \in Paths, content \in Contents : write_file(path, content)
    \/ \E path \in Paths : list_directory(path)
    \/ \E path \in Paths : list_directory_tree(path, DefaultMaxDepth)
    \/ build_tree

Spec == Init /\ [][Next]_vars

----------------------------------------------------------------------------
(* Hosts and requests around the size limit. *)

MB == 1024 * 1024

Binary(size) == File(size, None)

\* Files of one byte less than m MB, of m MB and of one byte more, a small
\* file that is not text and one of m MB and one byte more.
SizeFs(m) ==
    (<<>> :> Dir(TRUE)) @@
    (<<"data">> :> Dir(TRUE)) @@
    (<<"data", "a">> :> File(m * MB - 1, Text(m * MB - 1))) @@
    (<<"data", "b">> :> File(m * MB, Text(m * MB))) @@
    (<<"data", "c">> :> File(m * MB + 1, Text(m * MB + 1))) @@
    (<<"data", "d">> :> Binary(3)) @@
    (<<"data", "e">> :> Binary(m * MB + 1))

\* One-, two-, three- and four-byte characters, a lone surrogate and a
\* carriage return.
CodePoints == {97, 233, 8364, 128512, 55296, 13}

\* Strings whose encoding is as long as m MB allows, or one character more.
SizeContents(m) ==
    {Str(cp, n) : cp \in CodePoints,
                  n \in {0, (m * MB) \div 4, (m * MB) \div 3, (m * MB) \div 3 + 1,
                         (m * MB) \div 2, (m * MB) \div 2 + 1, m * MB, m * MB + 1}}

SizePaths == {<<"data", "a">>, <<"data", "b">>, <<"data", "c">>, <<"data", "d">>,
              <<"data", "e">>, <<"data", "new">>, <<"data", "n1", "new">>}

InitSize ==
    \E m \in 1..MaxMb, no_size_limit \in BOOLEAN, max_mb \in 0..MaxMb :
        Started(SizeFs(m), <<AllowEntry(<<"data">>, "rw")>>, no_size_limit, max_mb)

\* Where callers write: over a file, to a new file, below a missing parent.
SizeTargets == {<<"data", "b">>, <<"data", "new">>, <<"data", "n1", "new">>}

\* The MB count the contents written are measured around: the configured
\* limit, or the largest limit when there is none.
AroundMb == IF max_file_size_bytes = None THEN MaxMb
            ELSE Value(max_file_size_bytes) \div MB

NextSize ==
    \/ \E path \in SizePaths : read_file(path)
    \/ \E path \in SizeTargets, content \in SizeContents(AroundMb) :
           write_file(path, content)

SpecSize == InitSize /\ [][NextSize]_vars

----------------------------------------------------------------------------
(* Hosts and requests for the tree walk. *)

\* <<"data", "d", ..., "d">> with n components "d".
RECURSIVE Chain(_)
Chain(n) == IF n = 0 THEN <<"data">> ELSE Append(Chain(n - 1), "d")

\* A chain of ChainDepth nested directories with a file at its end, and in
\* the first of them a symbolic link back to the top.
ChainFs ==
    (<<>> :> Dir(TRUE)) @@
    (<<"data">> :> Dir(TRUE)) @@
    [p \in {Chain(n) : n \in 1..ChainDepth} |-> Dir(TRUE)] @@
    (Append(Chain(1), "up") :> Link(<<"data">>)) @@
    (Append(Chain(ChainDepth), "f") :> File(1, Text(1)))

\* Subdirectories with content, a directory that cannot be listed, and
\* symbolic links to a file, to a directory outside and back to ancestors.
BushyFs ==
    (<<>> :> Dir(TRUE)) @@
    (<<"data">> :> Dir(TRUE)) @@
    (<<"data", "f">> :> File(4, Text(4))) @@
    (<<"data", "ln">> :> Link(<<"out", "s">>)) @@
    (<<"data", "dd">> :> Link(<<"out">>)) @@
    (<<"data", "up">> :> Link(<<"data">>)) @@
    (<<"data", "lock">> :> Dir(FALSE)) @@
    (<<"data", "lock", "g">> :> File(1, Text(1))) @@
    (<<"data", "sub">> :> Dir(TRUE)) @@
    (<<"data", "sub", "b">> :> File(1, Text(1))) @@
    (<<"data", "sub", "a">> :> Dir(TRUE)) @@
    (<<"data", "sub", "a", "c">> :> Dir(TRUE)) @@
    (<<"data", "sub", "a", "c", "g">> :> File(1, Text(1))) @@
    (<<"data", "sub", "up">> :> Link(<<"data">>)) @@
    (<<"out">> :> Dir(TRUE)) @@
    (<<"out", "s">> :> File(6, Text(6)))

TreeHosts == {ChainFs, BushyFs}

TreePaths == {<<"data">>, <<"data", "sub">>, <<"data", "d">>, <<"data", "up">>,
              <<"data", "sub", "up", "sub">>, <<"data", "lock">>, <<"data", "f">>,
              <<"data", "dd">>, <<"data", "new">>}

DepthArgs == (-1)..MaxDepthArg

InitTree ==
    \E f \in TreeHosts :
        Started(f, <<AllowEntry(<<"data">>, "rw")>>, FALSE, DefaultMaxMb)

NextTree ==
    \/ \E path \in TreePaths, depth \in DepthArgs : list_directory_tree(path, depth)
    \/ build_tree

SpecTree == InitTree /\ [][NextTree]_vars

\* A handler has no await: once build_tree is called it runs to its return.
FairSpecTree == SpecTree /\ WF_vars(build_tree)

----------------------------------------------------------------------------
(* Vocabulary of the properties. *)

IsWrite == req.op = "write_file"

IsRead == req.op \in {"read_file", "list_directory", "list_directory_tree"}

\* The entries created or modified by the last request (none is ever removed).
Changed == {p \in DOMAIN fs : p \notin DOMAIN pre \/ pre[p] # fs[p]}

\* The indices of the configured roots that contain the canonical path p.
Containing(p) == {i \in 1..Len(allowed_paths) : IsRelativeTo(p, allowed_paths[i].path)}

\* The first of them in configuration order.
FirstContaining(p) == CHOOSE i \in Containing(p) : \A j \in Containing(p) : i <= j

InsideSomeRoot(p) == Containing(p) # {}

\* The last request's path as validate_path sees it, what validate_path
\* makes of it on the filesystem f, and where following every symbolic link
\* leads from it.
PathObj == PathOf(req.path)

Validated(f) == ValidatePath(f, allowed_paths, req.path, IsWrite)

Checked == Requested(pre, PathObj, IsWrite)

RealTarget == Resolve(pre, PathObj)

Denied(response) ==
    /\ response.kind = "PermissionError"
    /\ response.msg[1] = "Access denied: outside allowed directories"

DeniedReadOnly(response) ==
    /\ response.kind = "PermissionError"
    /\ response.msg[1] = "Write access denied: read-only"

----------------------------------------------------------------------------
(* C1: effects stay inside the writable roots. *)

\* C1 (as claimed): whatever the host holds (symbolic links and dangling
\* symbolic links inside an allowed root included) and whatever requests were
\* served, every file or directory the last request created or modified lies,
\* at its real location, inside a configured root whose permission is rw.
C1_EffectsInsideWritableRoots ==
    \A p \in Changed :
        \E i \in Containing(p) : allowed_paths[i].permission = "rw"

----------------------------------------------------------------------------
(* C2: a target outside every root is refused. *)

\* C2 (as claimed): a request whose real, symlink-resolved target lies outside
\* every configured root (for a read, a target that exists) is refused by
\* validate_path with PermissionError and reads and writes nothing; this
\* covers a write whose leaf is new below a symbolic link that leaves the roots.
C2_OutsideTargetRefused ==
    (/\ req.op # "none"
     /\ IsRead => Exists(pre, PathObj)
     /\ ~InsideSomeRoot(RealTarget))
    => (/\ Denied(Validated(pre))
        /\ pc = "idle" => Denied(resp)
        /\ fs = pre)

----------------------------------------------------------------------------
(* C3: writes and read-only roots. *)

\* C3 (as claimed): a write_file request whose target (the path validate_path
\* checks) lies in a root configured ro fails with PermissionError and leaves
\* the filesystem unchanged, in every allow-list, nested roots included.
C3_WriteInReadOnlyRootFails ==
    (/\ IsWrite
     /\ \E i \in Containing(Checked) : allowed_paths[i].permission = "ro")
    => (resp.kind = "PermissionError" /\ fs = pre)

\* C3 (amended): a write_file request fails with the read-only
\* PermissionError, naming the root, and leaves the filesystem unchanged,
\* whenever the first root in configuration order that contains the path
\* validate_path checks is ro.
C3_WriteFirstRootReadOnlyFails ==
    (/\ IsWrite
     /\ InsideSomeRoot(Checked)
     /\ allowed_paths[FirstContaining(Checked)].permission = "ro")
    => (/\ DeniedReadOnly(resp)
        /\ resp.msg[2] = allowed_paths[FirstContaining(Checked)].path
        /\ fs = pre)

\* A write into a read-only root that an rw root listed before it does not
\* contain has been refused.
C3_Witness ==
    /\ IsWrite
    /\ Len(allowed_paths) = 2
    /\ Cardinality(Containing(Checked)) = 1
    /\ allowed_paths[FirstContaining(Checked)].permission = "ro"
    /\ DeniedReadOnly(resp)

----------------------------------------------------------------------------
(* C9: nested roots. *)

\* C9: when the path validate_path checks is contained in more than one
\* configured root, the first containing root in configuration order alone
\* decides: a write is refused as read-only exactly when that root is ro
\* (whatever the permissions of the later ones), and a read is never refused.
C9_FirstContainingRootDecides ==
    (/\ req.op # "none"
     /\ IsRead => Exists(pre, PathObj)
     /\ Cardinality(Containing(Checked)) >= 2)
    => LET first == allowed_paths[FirstContaining(Checked)]
           v == Validated(pre)
       IN  /\ v.root = FirstContaining(Checked)
           /\ IsWrite => /\ (v.kind = "PermissionError") = (first.permission = "ro")
                         /\ (resp.kind = "PermissionError") = (first.permission = "ro")
                         /\ first.permission = "ro" => DeniedReadOnly(resp) /\ fs = pre
           /\ IsRead => v.kind = "ok"

\* A write below both roots was let through by an rw root listed before an
\* ro root.
C9_Witness ==
    /\ IsWrite
    /\ Cardinality(Containing(Checked)) = 2
    /\ allowed_paths[1].permission = "rw"
    /\ allowed_paths[2].permission = "ro"
    /\ resp.kind = "ok"
    /\ Checked \in Changed

----------------------------------------------------------------------------
(* C4: paths inside a root are accepted. *)

\* What a spelling reduces to when "." and ".." are taken as text.
RECURSIVE Reduce(_, _)
Reduce(done, rest) ==
    IF rest = <<>> THEN done
    ELSE IF Head(rest) = "." THEN Reduce(done, Tail(rest))
    ELSE IF Head(rest) = ".." THEN Reduce(Parent(done), Tail(rest))
    ELSE Reduce(Append(done, Head(rest)), Tail(rest))

Reduced == Reduce(<<>>, req.path)

StrictlyInside(p, root) == IsRelativeTo(p, root) /\ p # root

\* The last request spells, with or without "." and ".." segments, a path P
\* that no symbolic link takes elsewhere and that, for a read, exists.
RequestsRealPath ==
    /\ req.op # "none"
    /\ Reduced = RealTarget
    /\ IsRead => Exists(pre, Reduced)

\* The last request is a read whose path, as it is spelled, does not exist:
\* it walks through a name that is missing or is not a directory, even if a
\* later ".." leaves that name again.
ReadSpelledThroughMissing == IsRead /\ ~Exists(pre, PathObj)

\* The containment check matched root i: validate_path returned there, or
\* raised there because the root is ro and the request a write.
MatchedAt(v, i) == v.root = i /\ (v.kind = "ok" \/ DeniedReadOnly(v))

\* C4 (as claimed): for every configured root R, a request whose path reduces
\* to a point P strictly inside R passes resolution and the containment
\* check, and R is the root that matched, whatever the spelling of P.
C4_InsideRootAccepted ==
    RequestsRealPath =>
        \A i \in 1..Len(allowed_paths) :
            StrictlyInside(Reduced, allowed_paths[i].path)
            => MatchedAt(Validated(pre), i)

\* C4 (amended): for every configured root R and every request whose path
\* reduces to a point P strictly inside R:
\*  - a read whose path as spelled does not exist (it goes through a missing
\*    name or through a file before a ".." leaves it) fails resolution with
\*    "Path not found" before any root is consulted, although P exists;
\*  - every other request (a read whose spelling exists, and any write,
\*    the write spelled through a missing name included) passes resolution
\*    and the containment check with P as the resolved path, and the root
\*    that matched is the first root in configuration order that contains
\*    P: R itself unless a root listed before R contains P too.
\*    validate_path then returns P unless the request is a write and that
\*    first root is ro.
C4_InsideRootDecidedByFirstRoot ==
    RequestsRealPath =>
        \A i \in 1..Len(allowed_paths) :
            StrictlyInside(Reduced, allowed_paths[i].path)
            => LET v == Validated(pre)
                   first == FirstContaining(Reduced)
               IN  IF ReadSpelledThroughMissing
                   THEN /\ v.kind = "FileNotFoundError"
                        /\ v.root = 0
                        /\ resp.kind = "FileNotFoundError"
                        /\ resp.msg[1] = "Path not found"
                   ELSE /\ MatchedAt(v, first)
                        /\ v.path = Reduced
                        /\ (\A j \in 1..(i - 1) : j \notin Containing(Reduced))
                               => v.root = i
                        /\ (v.kind = "ok") =
                               ~(IsWrite /\ allowed_paths[first].permission = "ro")

\* A read spelled with ".." through an existing directory was accepted for
\* the file inside the first of two roots that it reduces to.
C4_Witness ==
    /\ req.op = "read_file"
    /\ \E k \in 1..Len(req.path) : req.path[k] = ".."
    /\ RequestsRealPath
    /\ ~ReadSpelledThroughMissing
    /\ StrictlyInside(Reduced, allowed_paths[1].path)
    /\ Len(allowed_paths) = 2
    /\ resp.kind = "ok"

\* A read of an existing file inside a root, spelled with ".." through a
\* missing directory, was refused as not found.
C4_ReadThroughMissingRefused ==
    /\ RequestsRealPath
    /\ ReadSpelledThroughMissing
    /\ \E i \in 1..Len(allowed_paths) : StrictlyInside(Reduced, allowed_paths[i].path)
    /\ resp.kind = "FileNotFoundError"

\* The same spelling was accepted for a write.
C4_WriteThroughMissingAccepted ==
    /\ RequestsRealPath
    /\ IsWrite
    /\ ~Exists(pre, PathObj)
    /\ Exists(pre, Reduced)
    /\ \E i \in 1..Len(allowed_paths) : StrictlyInside(Reduced, allowed_paths[i].path)
    /\ resp.kind = "ok"

----------------------------------------------------------------------------
(* C8: a write creates the missing parent directories. *)

\* The proper prefixes of p, the root directory excepted.
Ancestors(p) == {SubSeq(p, 1, k) : k \in 1..(Len(p) - 1)}

\* The last request is a write of content within the size limit to a path P
\* inside a root that lets writes to P through (the first root containing P
\* is rw), where P's parent directory does not exist and the ancestors of P
\* that do exist are directories.
WritesBelowMissingParent ==
    /\ IsWrite
    /\ InsideSomeRoot(RealTarget)
    /\ allowed_paths[FirstContaining(RealTarget)].permission = "rw"
    /\ ~Present(pre, Parent(RealTarget))
    /\ \A a \in Ancestors(RealTarget) : Present(pre, a) => pre[a].kind = "dir"
    /\ ~IsSurrogate(req.content.cp)
    /\ ~TooLarge(EncodedLen(req.content), max_file_size_bytes)

\* C8: a write_file request to a path inside an rw root whose parent
\* directory, or several ancestor directories, do not exist succeeds: every
\* missing ancestor is created as a directory, all of them inside the root,
\* the file is written with the content, nothing else changes, and the byte
\* count reported is the length of the content's UTF-8 encoding.
C8_WriteCreatesMissingParents ==
    WritesBelowMissingParent =>
        LET P == RealTarget
            root == allowed_paths[FirstContaining(P)].path
            bytes == Utf8Width(req.content.cp) * req.content.n
        IN  /\ Validated(pre).kind = "ok"
            /\ Validated(pre).path = P
            /\ resp = Ok(<<"Wrote", bytes, req.path>>)
            /\ \A a \in Ancestors(P) : IsKind(fs, a, "dir")
            /\ fs[P] = File(bytes, Some(req.content))
            /\ Changed = {P} \cup {a \in Ancestors(P) : ~Present(pre, a)}
            /\ \A c \in Changed : IsRelativeTo(c, root)

\* Two missing directories were created for a file whose content takes more
\* bytes than it has characters.
C8_Witness ==
    /\ WritesBelowMissingParent
    /\ Cardinality({a \in Ancestors(RealTarget) : ~Present(pre, a)}) = 2
    /\ req.content.cp > 127
    /\ resp.kind = "ok"
    /\ Cardinality(Changed) = 3

----------------------------------------------------------------------------
(* C10: what a request outside the roots tells about the host. *)

\* The part of a filesystem that every host sharing the configured roots
\* has: the roots, what is inside them, and the directories leading to them.
Shared(f) ==
    {p \in DOMAIN f : InsideSomeRoot(p)
                      \/ \E i \in 1..Len(allowed_paths) :
                             IsRelativeTo(allowed_paths[i].path, p)}

\* States of the area that is never shared: missing, empty, holding a file
\* (of one size or another, text or not), one more file, a symbolic link into
\* a root, or a symbolic link to another file outside.
OutsideStates ==
    { <<>> :> Dir(TRUE),
      (<<"out">> :> Dir(TRUE)),
      (<<"out">> :> Dir(TRUE)) @@ (<<"out", "s">> :> File(6, Text(6))),
      (<<"out">> :> Dir(TRUE)) @@ (<<"out", "s">> :> Binary(9)),
      (<<"out">> :> Dir(TRUE)) @@ (<<"out", "s">> :> Dir(TRUE)),
      (<<"out">> :> Dir(TRUE)) @@ (<<"out", "s">> :> File(6, Text(6))) @@
          (<<"out", "new">> :> File(1, Text(1))),
      (<<"out">> :> Dir(TRUE)) @@ (<<"out", "s">> :> File(6, Text(6))) @@
          (<<"out", "in">> :> Link(<<"data", "f">>)),
      (<<"out">> :> Dir(TRUE)) @@ (<<"out", "s">> :> Link(<<"out", "t">>)) @@
          (<<"out", "t">> :> File(2, Text(2))),
      (<<"out">> :> Dir(TRUE)) @@ (<<"out", "new">> :> Link(<<"out", "s">>)) }

\* The filesystems that hold inside the configured roots exactly what f
\* holds there, and differ from f outside them at most.
Twins(f) ==
    LET inside == [p \in Shared(f) |-> f[p]]
    IN  {Overlay(inside, outside) : outside \in OutsideStates}

\* What the caller sees of the validation: the failure kind and the message.
Seen(v) == [kind |-> v.kind, msg |-> v.msg]

\* The last request names, as text, a path outside every configured root.
AsksOutside == req.op # "none" /\ ~InsideSomeRoot(Reduced)

\* C10 (as claimed): on two filesystems that agree inside the configured
\* roots, a request whose input path lies outside every root has the same
\* outcome, the same failure with the same message.
C10_OutsideStateNotDisclosed ==
    AsksOutside =>
        \A twin \in Twins(pre) : Seen(Validated(twin)) = Seen(Validated(pre))

\* C10 (amended): on two filesystems that agree inside the configured roots,
\* a request whose input path lies outside every root and leads outside every
\* root on both is refused on both, with FileNotFoundError when it is a read
\* of a path that does not exist and with the PermissionError naming the
\* resolved path otherwise; the two outcomes are the same whenever the path
\* exists on both or on neither and resolves to the same path on both.  What
\* is outside shows in the response through this existence and this resolved
\* path alone.
C10_OutsideDisclosesExistenceAndTarget ==
    AsksOutside =>
        LET here == Validated(pre)
            exists_here == Exists(pre, PathObj)
            to_here == Requested(pre, PathObj, IsWrite)
            Refused(v, exists, to) ==
                IF IsRead /\ ~exists
                THEN v.kind = "FileNotFoundError" /\ v.msg = <<"Path not found", req.path>>
                ELSE Denied(v) /\ v.msg[2] = req.path /\ v.msg[3] = to
        IN  ~InsideSomeRoot(to_here) =>
                \A twin \in Twins(pre) :
                    LET there == Validated(twin)
                        exists_there == Exists(twin, PathObj)
                        to_there == Requested(twin, PathObj, IsWrite)
                    IN  ~InsideSomeRoot(to_there)
                        => /\ Refused(here, exists_here, to_here)
                           /\ Refused(there, exists_there, to_there)
                           /\ pc = "idle" => Seen(resp) = Seen(here) /\ fs = pre
                           /\ (exists_here = exists_there /\ to_here = to_there)
                              => Seen(there) = Seen(here)

\* A read of an existing file outside the roots was refused, while on a host
\* that agrees inside the roots the same path does not exist.
C10_Witness ==
    /\ AsksOutside
    /\ req.op = "read_file"
    /\ Denied(resp)
    /\ \E twin \in Twins(pre) : ~Exists(twin, PathObj)
    /\ \E twin \in Twins(pre) : twin # pre /\ Seen(Validated(twin)) = Seen(resp)

----------------------------------------------------------------------------
(* C5: the size limit. *)

\* The size the last request is measured by: the file's size for read_file,
\* the bytes of the UTF-8 encoding of the content for write_file.
PayloadSize ==
    IF IsWrite
    THEN req.content.n * (IF req.content.cp <= 127 THEN 1
                          ELSE IF req.content.cp <= 2047 THEN 2
                          ELSE IF req.content.cp <= 65535 THEN 3 ELSE 4)
    ELSE pre[Validated(pre).path].size

\* The last request got as far as the size check: its path was accepted, and
\* it names a file (read_file) or its content can be encoded (write_file).
Measured ==
    /\ pc = "idle"
    /\ req.op \in {"read_file", "write_file"}
    /\ Validated(pre).kind = "ok"
    /\ IF IsWrite THEN ~(req.content.cp \in 55296..57343 /\ req.content.n > 0)
       ELSE pre[Validated(pre).path].kind = "file"

RejectedTooLarge ==
    /\ resp.kind = "ValueError"
    /\ resp.msg[1] = IF IsWrite THEN "Content too large" ELSE "File too large"

\* C5: with a limit of n bytes a file (read_file) or an encoded content
\* (write_file) of at most n bytes is not refused for its size and one of
\* n+1 bytes or more is, with the error that reports the size and the limit,
\* before anything is read or written (no content is returned, nothing on
\* the filesystem changes, missing parents are not created); without a limit
\* no size is refused.
C5_SizeLimitBoundary ==
    Measured =>
        /\ max_file_size_bytes = None => ~RejectedTooLarge
        /\ max_file_size_bytes # None =>
               LET n == max_file_size_bytes[1]
               IN  /\ PayloadSize <= n => ~RejectedTooLarge
                   /\ PayloadSize >= n + 1 =>
                          /\ RejectedTooLarge
                          /\ resp.msg = <<resp.msg[1], PayloadSize, n>>
        /\ RejectedTooLarge => fs = pre /\ resp.value = <<>>
        /\ (IsWrite /\ resp.kind = "ok") => resp.value[2] = PayloadSize

\* A content of two-byte characters whose encoding is exactly as long as the
\* limit was written, where its character count is half the limit.
C5_Witness ==
    /\ Measured
    /\ IsWrite
    /\ max_file_size_bytes # None
    /\ req.content.cp = 233
    /\ PayloadSize = max_file_size_bytes[1]
    /\ resp.kind = "ok"
    /\ fs # pre

----------------------------------------------------------------------------
(* C6 and C7: the tree walk. *)

\* The caller's max_depth brought into 1..10.
Clamped == IF req.max_depth < 1 THEN 1
           ELSE IF req.max_depth > 10 THEN 10 ELSE req.max_depth

\* The last request was a tree walk that has returned its tree.
Walked == pc = "idle" /\ req.op = "list_directory_tree" /\ resp.kind = "ok"

\* C6 (as claimed): a tree walk whose max_depth is 1, or clamps to 1, gives
\* every subdirectory of the directory it was asked for as a node marked
\* truncated with no children.
C6_DepthOneTruncatesSubdirectories ==
    (Walked /\ Clamped = 1) =>
        \A i \in DOMAIN resp.value.children :
            resp.value.children[i].type = "dir" =>
                /\ resp.value.children[i].truncated
                /\ ~resp.value.children[i].has_children
                /\ resp.value.children[i].children = <<>>

\* While build_tree runs: no entry that is a symbolic link gets a node or an
\* activation, a directory is listed at depth at most the clamped max_depth,
\* one is cut short only just below it, and the activations of build_tree
\* number at most two more than the clamped max_depth, twelve at most.
WalkBounded ==
    /\ \A v \in visited :
           /\ ~IsSymlink(fs, v.path)
           /\ v.how \in {"iterated", "denied"} => v.depth <= Clamped
           /\ v.depth <= Clamped + 1
    /\ \A i \in 2..Len(stack) : ~IsSymlink(fs, stack[i].path)
    /\ \A i \in 1..Len(stack) : stack[i].depth = i - 1
    /\ Len(stack) <= Clamped + 2
    /\ Len(stack) <= 12

\* C7: the tree walk ends on every filesystem, one with a symbolic link back
\* to an ancestor included: it never lists or enters an entry that is a
\* symbolic link, and its recursion is bounded by the clamped max_depth (it
\* lists no directory deeper than that, 10 at most) however deep the
\* directories nest and whatever max_depth the caller passes.
C7_TreeWalkTerminatesBounded ==
    /\ []WalkBounded
    /\ (pc = "walking") ~> (pc = "idle")

\* A walk asked for more than 10 levels on directories nested deeper than
\* that, with a symbolic link back to the top among them, has returned: it
\* listed depth 10, cut depth 11 short and left the link out.
C7_Witness ==
    /\ Walked
    /\ req.max_depth > 10
    /\ IsSymlink(fs, Append(Chain(1), "up"))
    /\ \E v \in visited : v.how = "iterated" /\ v.depth = 10
    /\ \E v \in visited : v.how = "truncated" /\ v.depth = 11
    /\ \A v \in visited : v.path # Append(Chain(1), "up")

====
